---- MODULE Spec2Model ----
(***************************************************************************)
(* Model of the datediff crate (src/src/lib.rs): total_days_in_month, the  *)
(* Interval value and get_diff, over chrono's NaiveDate.                   *)
(*                                                                         *)
(* get_diff is a pure function; it is modelled statement by statement as a *)
(* small sequential machine (pc) so that its intermediate locals, the      *)
(* calls it makes to total_days_in_month and a panic are all observable.   *)
(* A behaviour draws two valid dates a, b, runs get_diff(a, b) and then    *)
(* get_diff(b, a).  A second specification, OracleSpec, applies            *)
(* total_days_in_month to a (year, month) pair.                            *)
(***************************************************************************)
EXTENDS Integers, Sequences, FiniteSets, TLC

VARIABLES
    a, b,                 \* the two dates the caller holds
    call,                 \* 1: get_diff(a, b) is running/has run; 2: get_diff(b, a)
    pc,                   \* position inside get_diff (or inside the oracle call)
    start, end,           \* get_diff's local clones (line 121)
    positive,             \* line 120
    start_day, end_day,   \* line 128
    start_month, end_month, \* line 129
    start_year, end_year, \* line 130
    calls,                \* the (year, month) arguments get_diff passed to total_days_in_month
    res1, res2,           \* the Interval returned by call 1 and by call 2
    oy, om, ores          \* OracleSpec: the arguments and outcome of total_days_in_month

vars == <<a, b, call, pc, start, end, positive, start_day, end_day,
          start_month, end_month, start_year, end_year, calls, res1, res2,
          oy, om, ores>>

-----------------------------------------------------------------------------
(* Bounds of the explored input space.                                     *)

\* The grid of input dates covers the years TestYear-1 .. TestYear-1+YearSpan.
YearSpan == 2
\* Grid days of month: 1..LowDays and the last HighDays of 1..31.
LowDays == 2
HighDays == 4
\* OracleSpec explores OracleSpan years before and after TestYear.
OracleSpan == 420

\* The year of the crate's own examples (2020, a leap year).
TestYear == 2020

-----------------------------------------------------------------------------
(* Fixed-width integers.  TLC's integers are 32-bit signed, so a u32 is    *)
(* kept as two 16-bit limbs; the casts are modelled by what they do.       *)

Limb == 2 ^ 16

\* `x as u32` for an i32 or i64 x: reduction modulo 2^32.
AsU32(x) == [hi |-> (x \div Limb) % Limb, lo |-> x % Limb]

\* `u as i32` for a u32 u: the same 32 bits read as two's complement.
AsI32(u) == IF u.hi >= Limb \div 2 THEN (u.hi - Limb) * Limb + u.lo
            ELSE u.hi * Limb + u.lo

-----------------------------------------------------------------------------
(* chrono::NaiveDate, the calendar collaborator.                           *)

Date(y, m, d) == [year |-> y, month |-> m, day |-> d]

\* chrono's year range: i32::MIN >> 13 .. i32::MAX >> 13.
MIN_YEAR == -(2 ^ 18)
MAX_YEAR == 2 ^ 18 - 1

is_leap_year(y) == (y % 4 = 0 /\ y % 100 # 0) \/ y % 400 = 0

\* Length of a month in the proleptic Gregorian calendar.
month_length(y, m) ==
    IF m \in {4, 6, 9, 11} THEN 30
    ELSE IF m = 2 THEN (IF is_leap_year(y) THEN 29 ELSE 28)
    ELSE 31

\* NaiveDate::from_ymd_opt(y, m, d).is_some(); from_ymd panics otherwise.
from_ymd_ok(y, m, d) ==
    /\ y >= MIN_YEAR /\ y <= MAX_YEAR
    /\ m >= 1 /\ m <= 12
    /\ d >= 1 /\ d <= month_length(y, m)

\* Day number of a date (days since a fixed epoch), computed without a
\* month-length table: years run March..February, 146097 days per 400 years.
day_number(y, m, d) ==
    LET yy  == IF m <= 2 THEN y - 1 ELSE y
        era == yy \div 400
        yoe == yy - era * 400
        mp  == (m + 9) % 12
        doy == (153 * mp + 2) \div 5 + d - 1
        doe == yoe * 365 + yoe \div 4 - yoe \div 100 + doy
    IN  era * 146097 + doe

DayNumber(dt) == day_number(dt.year, dt.month, dt.day)

\* NaiveDate's derived Ord: by year, then month, then day.
DateLtIgnoringDay(x, y) ==
    \/ x.year < y.year
    \/ x.year = y.year /\ x.month < y.month
DateLt(x, y) ==
    \/ x.year < y.year
    \/ x.year = y.year /\ x.month < y.month
    \/ x.year = y.year /\ x.month = y.month /\ x.day < y.day

-----------------------------------------------------------------------------
(* total_days_in_month (lines 46-54).                                      *)

\* The date whose first day ends the month (lines 47-51).
NextMonth(year, month) ==
    IF month = 12 THEN <<year + 1, 1>> ELSE <<year, month + 1>>

\* One of the three from_ymd calls panics.
total_days_in_month_panics(year, month) ==
    LET n == NextMonth(year, month)
    IN  \/ ~from_ymd_ok(n[1], n[2], 1)
        \/ ~from_ymd_ok(year, month, 1)

\* The value returned when nothing panics: num_days() as u32.
total_days_in_month(year, month) ==
    LET n == NextMonth(year, month)
    IN  AsU32(day_number(n[1], n[2], 1) - day_number(year, month, 1))

-----------------------------------------------------------------------------
(* get_diff (lines 119-155).                                               *)

NoDate == Date(0, 0, 0)
NoInterval == [none |-> TRUE]
NoOutcome == [panicked |-> FALSE, days |-> [none |-> TRUE]]

\* line 122: end < start
NeedSwapNever(s, e) == FALSE
NeedSwapOrEqual(s, e) == ~DateLt(s, e)
NeedSwapByMonth(s, e) == DateLtIgnoringDay(e, s)
NeedSwap(s, e) == DateLt(e, s)

\* lines 134-140: the (year, month) whose length is borrowed.
BorrowFromNoJanuaryCase(ey, em) == <<ey, em - 1>>
BorrowFromNovember(ey, em) ==
    IF em > 1 THEN <<ey, em - 1>> ELSE <<ey - 1, 11>>
BorrowFrom(ey, em) ==
    IF em > 1 THEN <<ey, em - 1>> ELSE <<ey - 1, 12>>

\* line 143: end_month < start_month
NeedMonthBorrowOrEqual(em, sm) == em <= sm
NeedMonthBorrow(em, sm) == em < sm

\* lines 120-125
Enter ==
    /\ pc = "entry"
    /\ LET s == IF call = 1 THEN a ELSE b
           e == IF call = 1 THEN b ELSE a
       IN  IF NeedSwap(s, e)
           THEN positive' = FALSE /\ start' = e /\ end' = s
           ELSE positive' = TRUE /\ start' = s /\ end' = e
    /\ pc' = "extract"
    /\ UNCHANGED <<a, b, call, start_day, end_day, start_month, end_month,
                   start_year, end_year, calls, res1, res2, oy, om, ores>>

\* lines 128-130
Extract ==
    /\ pc = "extract"
    /\ start_day' = start.day /\ end_day' = end.day
    /\ start_month' = start.month /\ end_month' = end.month
    /\ start_year' = start.year /\ end_year' = end.year
    /\ pc' = "day_borrow"
    /\ UNCHANGED <<a, b, call, start, end, positive, calls, res1, res2,
                   oy, om, ores>>

\* lines 132-142
DayBorrow ==
    /\ pc = "day_borrow"
    /\ IF end_day < start_day
       THEN LET from == BorrowFrom(end_year, end_month)
            IN  /\ calls' = Append(calls, from)
                /\ IF total_days_in_month_panics(from[1], from[2])
                   THEN /\ pc' = "panic"
                        /\ UNCHANGED <<end_day, end_month>>
                   ELSE /\ end_day' = end_day
                                + AsI32(total_days_in_month(from[1], from[2]))
                        /\ end_month' = end_month - 1
                        /\ pc' = "month_borrow"
       ELSE /\ pc' = "month_borrow"
            /\ UNCHANGED <<end_day, end_month, calls>>
    /\ UNCHANGED <<a, b, call, start, end, positive, start_day, start_month,
                   start_year, end_year, res1, res2, oy, om, ores>>

\* lines 143-147
MonthBorrow ==
    /\ pc = "month_borrow"
    /\ IF NeedMonthBorrow(end_month, start_month)
       THEN end_month' = end_month + 12 /\ end_year' = end_year - 1
       ELSE UNCHANGED <<end_month, end_year>>
    /\ pc' = "return"
    /\ UNCHANGED <<a, b, call, start, end, positive, start_day, end_day,
                   start_month, start_year, calls, res1, res2, oy, om, ores>>

\* lines 149-154
Return ==
    /\ pc = "return"
    /\ LET r == [days     |-> AsU32(end_day - start_day),
                 months   |-> AsU32(end_month - start_month),
                 years    |-> AsU32(end_year - start_year),
                 positive |-> positive]
       IN  IF call = 1 THEN res1' = r /\ UNCHANGED res2
                       ELSE res2' = r /\ UNCHANGED res1
    /\ pc' = "returned"
    /\ UNCHANGED <<a, b, call, start, end, positive, start_day, end_day,
                   start_month, end_month, start_year, end_year, calls,
                   oy, om, ores>>

\* The caller asks for the difference the other way round: get_diff(b, a).
CallReversed ==
    /\ pc = "returned" /\ call = 1
    /\ call' = 2
    /\ pc' = "entry"
    /\ start' = NoDate /\ end' = NoDate /\ positive' = TRUE
    /\ start_day' = 0 /\ end_day' = 0
    /\ start_month' = 0 /\ end_month' = 0
    /\ start_year' = 0 /\ end_year' = 0
    /\ calls' = <<>>
    /\ UNCHANGED <<a, b, res1, res2, oy, om, ores>>

-----------------------------------------------------------------------------
(* The inputs.                                                             *)

GridYears == (TestYear - 1)..(TestYear - 1 + YearSpan)
GridDays == (1..LowDays) \cup ((32 - HighDays)..31)

GridDates ==
    {Date(y, m, d) : <<y, m, d>> \in
        {t \in GridYears \X (1..12) \X GridDays : from_ymd_ok(t[1], t[2], t[3])}}

\* The pairs of the crate's tests and doc examples (lines 13-14, 104-105,
\* 164-214), and a January pair with a day borrow.
ExamplePairs ==
    { <<Date(2020, 1, 1),  Date(2020, 1, 1)>>,
      <<Date(2020, 2, 5),  Date(2013, 1, 1)>>,
      <<Date(2013, 2, 5),  Date(2020, 1, 1)>>,
      <<Date(3040, 3, 1),  Date(1102, 1, 5)>>,
      <<Date(1857, 1, 5),  Date(2020, 1, 1)>>,
      <<Date(1947, 8, 15), Date(1950, 1, 26)>>,
      <<Date(2020, 1, 31), Date(2021, 1, 5)>> }

\* Dates at the two ends of chrono's year range.
EdgeDates ==
    { Date(MIN_YEAR, 1, 1), Date(MIN_YEAR, 1, 31), Date(MIN_YEAR, 2, 1),
      Date(MIN_YEAR, 12, 31), Date(MIN_YEAR + 1, 1, 1),
      Date(MAX_YEAR, 1, 1), Date(MAX_YEAR, 1, 30), Date(MAX_YEAR, 12, 1),
      Date(MAX_YEAR, 12, 31), Date(MAX_YEAR - 1, 12, 31) }

InputPairs ==
    (GridDates \X GridDates) \cup ExamplePairs \cup (EdgeDates \X EdgeDates)

Init ==
    /\ \E p \in InputPairs : a = p[1] /\ b = p[2]
    /\ call = 1
    /\ pc = "entry"
    /\ start = NoDate /\ end = NoDate /\ positive = TRUE
    /\ start_day = 0 /\ end_day = 0
    /\ start_month = 0 /\ end_month = 0
    /\ start_year = 0 /\ end_year = 0
    /\ calls = <<>>
    /\ res1 = NoInterval /\ res2 = NoInterval
    /\ oy = 0 /\ om = 0 /\ ores = NoOutcome

Next ==
    \/ Enter
    \/ Extract
    \/ DayBorrow
    \/ MonthBorrow
    \/ Return
    \/ CallReversed

Spec == Init /\ [][Next]_vars

-----------------------------------------------------------------------------
(* OracleSpec: one call of total_days_in_month(oy, om).                    *)

OracleYears ==
    ((TestYear - OracleSpan)..(TestYear + OracleSpan))
        \cup {1752, 3016}
        \cup {MIN_YEAR, MIN_YEAR + 1, MAX_YEAR - 1, MAX_YEAR}

OracleInit ==
    /\ oy \in OracleYears
    /\ om \in 1..12
    /\ ores = NoOutcome
    /\ pc = "oracle"
    /\ a = NoDate /\ b = NoDate /\ call = 1
    /\ start = NoDate /\ end = NoDate /\ positive = TRUE
    /\ start_day = 0 /\ end_day = 0
    /\ start_month = 0 /\ end_month = 0
    /\ start_year = 0 /\ end_year = 0
    /\ calls = <<>>
    /\ res1 = NoInterval /\ res2 = NoInterval

\* lines 46-54
OracleCall ==
    /\ pc = "oracle"
    /\ ores' = IF total_days_in_month_panics(oy, om)
               THEN [panicked |-> TRUE, days |-> [none |-> TRUE]]
               ELSE [panicked |-> FALSE, days |-> total_days_in_month(oy, om)]
    /\ pc' = "oracle_done"
    /\ UNCHANGED <<a, b, call, start, end, positive, start_day, end_day,
                   start_month, end_month, start_year, end_year, calls,
                   res1, res2, oy, om>>

OracleNext == OracleCall

OracleSpec == OracleInit /\ [][OracleNext]_vars

-----------------------------------------------------------------------------
(* Vocabulary of the properties.                                           *)

\* A call of get_diff has returned; its arguments and its Interval.
Returned == pc = "returned"
ArgStart == IF call = 1 THEN a ELSE b
ArgEnd == IF call = 1 THEN b ELSE a
Cur == IF call = 1 THEN res1 ELSE res2

\* A u32 whose value is below 2^31, and that value.
FitsInt(u) == u.hi < Limb \div 2
U32ToInt(u) == u.hi * Limb + u.lo

\* The u32 with the value n, for 0 <= n < 2^16.
Small(n) == [hi |-> 0, lo |-> n]

\* The chronologically earlier and later of the two arguments.
Earlier == IF DayNumber(ArgEnd) < DayNumber(ArgStart) THEN ArgEnd ELSE ArgStart
Later == IF DayNumber(ArgEnd) < DayNumber(ArgStart) THEN ArgStart ELSE ArgEnd

\* The Gregorian calendar as the properties state it.
Leap(y) == (y % 4 = 0 /\ y % 100 # 0) \/ y % 400 = 0
GregorianLength(y, m) ==
    CASE m \in {1, 3, 5, 7, 8, 10, 12} -> 31
      [] m \in {4, 6, 9, 11} -> 30
      [] m = 2 -> IF Leap(y) THEN 29 ELSE 28

\* Steps 1-5 of the interval calculation, over the mathematical integers.
StepsInterval(s, e) ==
    LET pos == ~(DayNumber(e) < DayNumber(s))
        ea  == IF pos THEN s ELSE e
        la  == IF pos THEN e ELSE s
        db  == la.day < ea.day
        bl  == IF la.month = 1 THEN GregorianLength(la.year - 1, 12)
               ELSE GregorianLength(la.year, la.month - 1)
        ld  == IF db THEN la.day + bl ELSE la.day
        lm1 == IF db THEN la.month - 1 ELSE la.month
        mb  == lm1 < ea.month
        lm  == IF mb THEN lm1 + 12 ELSE lm1
        ly  == IF mb THEN la.year - 1 ELSE la.year
    IN  [days |-> ld - ea.day, months |-> lm - ea.month,
         years |-> ly - ea.year, positive |-> pos]

\* The Interval (y years, m months, d days, p) with small fields.
IntervalOf(y, m, d, p) ==
    [days |-> Small(d), months |-> Small(m), years |-> Small(y), positive |-> p]

\* get_diff(s, e), once returned, gave the interval r.
Gave(s, e, r) == (Returned /\ ArgStart = s /\ ArgEnd = e) => Cur = r

-----------------------------------------------------------------------------
(* C1: after the borrow steps each of end_day - start_day, end_month -     *)
(* start_month and end_year - start_year is >= 0, so the Interval's days,  *)
(* months and years are those differences and no cast wraps.               *)
C1_MagnitudesNonNegative ==
    Returned =>
        /\ end_day - start_day >= 0
        /\ end_month - start_month >= 0
        /\ end_year - start_year >= 0
        /\ FitsInt(Cur.days) /\ U32ToInt(Cur.days) = end_day - start_day
        /\ FitsInt(Cur.months) /\ U32ToInt(Cur.months) = end_month - start_month
        /\ FitsInt(Cur.years) /\ U32ToInt(Cur.years) = end_year - start_year

(* C2: get_diff(start, end) returns exactly the interval of steps 1-5      *)
(* (order normalization, day borrow, month borrow, field-wise              *)
(* subtraction), and gives the five intervals of the tests and examples.   *)
C2_MatchesSteps ==
    /\ Returned =>
         LET st == StepsInterval(ArgStart, ArgEnd)
         IN  /\ FitsInt(Cur.days) /\ U32ToInt(Cur.days) = st.days
             /\ FitsInt(Cur.months) /\ U32ToInt(Cur.months) = st.months
             /\ FitsInt(Cur.years) /\ U32ToInt(Cur.years) = st.years
             /\ Cur.positive = st.positive
    /\ Gave(Date(2020, 2, 5), Date(2013, 1, 1), IntervalOf(7, 1, 4, FALSE))
    /\ Gave(Date(2013, 2, 5), Date(2020, 1, 1), IntervalOf(6, 10, 27, TRUE))
    /\ Gave(Date(3040, 3, 1), Date(1102, 1, 5), IntervalOf(1938, 1, 25, FALSE))
    /\ Gave(Date(1857, 1, 5), Date(2020, 1, 1), IntervalOf(162, 11, 27, TRUE))
    /\ Gave(Date(1947, 8, 15), Date(1950, 1, 26), IntervalOf(2, 5, 11, TRUE))

(* C3: antisymmetry: for a # b, get_diff(a, b) and get_diff(b, a) have the *)
(* same years, months and days and opposite positive flags.                *)
C3_Antisymmetry ==
    (Returned /\ call = 2 /\ a # b) =>
        /\ res1.years = res2.years
        /\ res1.months = res2.months
        /\ res1.days = res2.days
        /\ res1.positive # res2.positive

\* Both calls returned for two different dates, the second one swapping and
\* borrowing days.
C3_Witness ==
    /\ Returned /\ call = 2 /\ a # b
    /\ res1.positive /\ ~res2.positive
    /\ Len(calls) = 1

(* C4: total_days_in_month(year, month) returns the Gregorian length of    *)
(* the month for every year and every month in 1..12: 31, 30, and for      *)
(* February 29 iff the year is a leap year, else 28.                       *)
C4_GregorianLength ==
    pc = "oracle_done" =>
        /\ ~ores.panicked
        /\ ores.days = Small(GregorianLength(oy, om))

(* C5: get_diff is total: it returns an Interval without aborting, every   *)
(* call to total_days_in_month passes a month in 1..12 of a year in which  *)
(* that month exists, and there are at most two such calls.                *)
C5_Total ==
    /\ pc # "panic"
    /\ Returned => Cur # NoInterval
    /\ Len(calls) <= 2
    /\ \A i \in 1..Len(calls) :
          /\ calls[i][2] \in 1..12
          /\ from_ymd_ok(calls[i][1], calls[i][2], 1)
          /\ ~total_days_in_month_panics(calls[i][1], calls[i][2])

\* A call returned after borrowing from December of the first supported year.
C5_Witness ==
    /\ Returned
    /\ calls = <<<<MIN_YEAR, 12>>>>
    /\ Cur # NoInterval

(* C6: the months field of the returned Interval is in 0..11, also when    *)
(* the day borrow lowered later.month to 0 before the month borrow.        *)
C6_MonthsBelowTwelve ==
    Returned =>
        /\ end_month - start_month \in 0..11
        /\ Cur.months.hi = 0
        /\ Cur.months.lo \in 0..11

\* January with a day borrow: end_month went 1 -> 0 -> 12, months = 11.
C6_Witness ==
    /\ Returned
    /\ end.month = 1 /\ Len(calls) = 1 /\ end_month = 12
    /\ Cur.months = Small(11)

(* C7: identity: get_diff(d, d) returns 0 years, 0 months, 0 days and      *)
(* positive = true.                                                        *)
C7_Identity ==
    (Returned /\ ArgStart = ArgEnd) => Cur = IntervalOf(0, 0, 0, TRUE)

\* Both calls returned for the same date, the 31st of a month.
C7_Witness ==
    /\ Returned /\ call = 2 /\ a = b /\ a.day = 31
    /\ res1 = IntervalOf(0, 0, 0, TRUE)

(* C8: positive is false iff end is chronologically strictly before start, *)
(* whether or not a day or month borrow takes place.                       *)
C8_PositiveFlag ==
    Returned => (Cur.positive = FALSE <=> DayNumber(ArgEnd) < DayNumber(ArgStart))

\* A reversed pair whose call borrowed both days and a month.
C8_Witness ==
    /\ Returned /\ ~Cur.positive
    /\ DayNumber(ArgEnd) < DayNumber(ArgStart)
    /\ Len(calls) = 1
    /\ end_year = end.year - 1

(* C9: January day-borrow path: when later.month = 1 and later.day <       *)
(* earlier.day, the 31 days of December of later.year - 1 are borrowed and *)
(* the year is reduced by one in total: days = later.day + 31 -            *)
(* earlier.day, months = 12 - earlier.month, years = later.year - 1 -      *)
(* earlier.year; get_diff(2020-01-31, 2021-01-05) = (0, 11, 5, positive).  *)
C9_JanuaryBorrow ==
    /\ (Returned /\ Later.month = 1 /\ Later.day < Earlier.day) =>
          /\ calls = <<<<Later.year - 1, 12>>>>
          /\ end_day = Later.day + 31
          /\ end_year = Later.year - 1
          /\ Cur.days = Small(Later.day + 31 - Earlier.day)
          /\ Cur.months = Small(12 - Earlier.month)
          /\ FitsInt(Cur.years)
          /\ U32ToInt(Cur.years) = Later.year - 1 - Earlier.year
    /\ Gave(Date(2020, 1, 31), Date(2021, 1, 5), IntervalOf(0, 11, 5, TRUE))

\* The example of the January path has returned.
C9_Witness ==
    /\ Returned /\ call = 1
    /\ a = Date(2020, 1, 31) /\ b = Date(2021, 1, 5)
    /\ calls = <<<<2020, 12>>>>
    /\ res1 = IntervalOf(0, 11, 5, TRUE)

(* C10: round trip: advancing earlier by the Interval's years and months   *)
(* (day of month kept, clamped to the month's last day) and then by its    *)
(* days lands exactly on later, for every pair of dates.                   *)
C10_RoundTrip ==
    Returned =>
        /\ FitsInt(Cur.years) /\ FitsInt(Cur.months) /\ FitsInt(Cur.days)
        /\ LET tm == Earlier.month - 1 + U32ToInt(Cur.months)
               ty == Earlier.year + U32ToInt(Cur.years) + tm \div 12
               mo == (tm % 12) + 1
               dd == IF Earlier.day > GregorianLength(ty, mo)
                     THEN GregorianLength(ty, mo) ELSE Earlier.day
           IN  day_number(ty, mo, dd) + U32ToInt(Cur.days) = DayNumber(Later)

-----------------------------------------------------------------------------
(* Where the three failing properties do hold: the extent of the defect.   *)

\* The day borrow took a month shorter than earlier.day.
ShortMonthBorrowed ==
    /\ Len(calls) = 1
    /\ GregorianLength(calls[1][1], calls[1][2]) < Earlier.day

\* Outside a negative day difference the Interval is the one of steps 1-5.
C2_MatchesStepsWhenNonNegative ==
    (Returned /\ end_day - start_day >= 0) =>
        LET st == StepsInterval(ArgStart, ArgEnd)
        IN  /\ FitsInt(Cur.days) /\ U32ToInt(Cur.days) = st.days
            /\ FitsInt(Cur.months) /\ U32ToInt(Cur.months) = st.months
            /\ FitsInt(Cur.years) /\ U32ToInt(Cur.years) = st.years
            /\ Cur.positive = st.positive

\* The day difference is negative only after borrowing a short month.
C1_NegativeOnlyAfterShortMonth ==
    (Returned /\ end_day - start_day < 0) => ShortMonthBorrowed

\* Every (year, month) but December of the last supported year has its
\* Gregorian length.
C4_LengthBelowLastDecember ==
    (pc = "oracle_done" /\ ~(oy = MAX_YEAR /\ om = 12)) =>
        /\ ~ores.panicked
        /\ ores.days = Small(GregorianLength(oy, om))

\* The round trip holds unless a month shorter than earlier.day was borrowed,
\* and fails whenever one was.
C10_RoundTripWhenMonthLongEnough ==
    Returned =>
        (ShortMonthBorrowed <=>
            ~(/\ FitsInt(Cur.years) /\ FitsInt(Cur.months) /\ FitsInt(Cur.days)
              /\ LET tm == Earlier.month - 1 + U32ToInt(Cur.months)
                     ty == Earlier.year + U32ToInt(Cur.years) + tm \div 12
                     mo == (tm % 12) + 1
                     dd == IF Earlier.day > GregorianLength(ty, mo)
                           THEN GregorianLength(ty, mo) ELSE Earlier.day
                 IN  day_number(ty, mo, dd) + U32ToInt(Cur.days)
                        = DayNumber(Later)))

====
